---- MODULE Spec2Model ----
(***************************************************************************)
(* A state-machine model of SbrioDriver_UDP (src/sbrio_driver_udp.cpp):    *)
(* the constructor, connect(), the loop thread _loop() with its bounded    *)
(* receive _receive() / _handle_receive() / _check_deadline() running on   *)
(* the io_service, the codec helpers, and the destructor.                  *)
(*                                                                         *)
(* Threads: the main thread (constructor, connect(), destructor), the      *)
(* loop thread started by connect(), and external threads that write       *)
(* setpoints / enables and read telemetry under state_mutex.               *)
(*                                                                         *)
(* Bytes are naturals 0..255.  A float is its 32-bit pattern; a double is  *)
(* a pair <<pattern, residue>>: the float32 pattern it rounds to and       *)
(* whether precision is lost by the (float) cast.  The host is taken to be *)
(* little-endian (the byte reversal in the code produces network order).   *)
(* The patterns used have sign bit 0, so that they fit the 32-bit integers *)
(* of TLC.                                                                 *)
(***************************************************************************)
EXTENDS Integers, Sequences, FiniteSets, TLC

\* ------------------------------------------------------------- constants
NUMBER_OF_JOINTS == 5
FLOAT_LENGTH == 4

\* thresholds of the health messages in _loop
WARN_AFTER == 10
TIMEOUT_AFTER == 20

\* ---------------------------------------------------------------- bounds
\* consecutive missed ticks explored before teardown starts
MaxMiss == 2
\* consecutive missed ticks explored with a silent peer (SpecSilent)
SilentTicks == 25
\* longest boolean array given to the bit packing helpers (a char has 8 bits)
MaxFlags == 8

\* ------------------------------------------------------------ data types
SendLen == NUMBER_OF_JOINTS * FLOAT_LENGTH + 1
\* int vector_length = FLOAT_LENGTH * NUMBER_OF_JOINTS
vector_length == FLOAT_LENGTH * NUMBER_OF_JOINTS
\* size of _rcv_buf (declared in the header): one incoming frame
RcvLen == 3 * vector_length + 1

\* the n-element sequence of x
Fill(n, x) == [k \in 1..n |-> x]

\* memory image of a float on the host: least significant byte first
FloatMem(p) ==
    << p % 256, (p \div 256) % 256, (p \div 65536) % 256, (p \div 16777216) % 256 >>

\* the float whose memory image is the 4 bytes m
MemFloat(m) == m[1] + 256 * m[2] + 65536 * m[3] + 16777216 * m[4]

\* float f = (float)joint_setpoints[i]
ToFloat(d) == d[1]

\* static_cast<double>(f)
ToDouble(p) == << p, 0 >>

\* ReverseBytes without the reversal: the bytes are copied in memory order
ReverseBytesInPlace(m) == [j \in 1..FLOAT_LENGTH |-> m[j]]

\* for(j) convertedFloat[j] = floatToConvert[FLOAT_LENGTH-1-j]
ReverseBytes(m) == [j \in 1..FLOAT_LENGTH |-> m[FLOAT_LENGTH + 1 - j]]

\* memcpy(&send_buf[i*sizeof(f)], &convertedFloat, sizeof(f)), i counted from 0
PutFloat(buf, i, bytes) ==
    [k \in 1..Len(buf) |->
        IF k > i * FLOAT_LENGTH /\ k <= (i + 1) * FLOAT_LENGTH
        THEN bytes[k - i * FLOAT_LENGTH] ELSE buf[k]]

\* _binary_to_double(buf, index), index counted from 0
_binary_to_double(buf, index) ==
    LET tmp_buf == << buf[index + 4], buf[index + 3], buf[index + 2], buf[index + 1] >>
    IN  ToDouble(MemFloat(tmp_buf))

\* _bool_to_char(b_vect): the loop reads b_vect[size-i] for i = 0..size-1, so its
\* first read is one past the end; oob is the bit that read yields
RECURSIVE BoolToCharLoop(_, _, _, _)
BoolToCharLoop(b_vect, oob, i, c) ==
    IF i >= Len(b_vect) THEN c
    ELSE LET bit == IF i = 0 THEN oob ELSE b_vect[Len(b_vect) - i + 1]
         IN  BoolToCharLoop(b_vect, oob, i + 1, (2 * c + (IF bit THEN 1 ELSE 0)) % 256)

_bool_to_char(b_vect, oob) == BoolToCharLoop(b_vect, oob, 0, 0)

\* the local vector of _char_to_bool(c, b_vect) when its loop ends
RECURSIVE CharToBoolLoop(_, _, _)
CharToBoolLoop(c, b_vect, i) ==
    IF i >= Len(b_vect) THEN b_vect
    ELSE CharToBoolLoop(c \div 2, [b_vect EXCEPT ![i + 1] = (c % 2 # 0)], i + 1)

\* _char_to_bool(char c, std::vector<bool> b_vect): the caller's vector after the
\* call.  The parameter is passed by value, so the unpacked bits stay in the copy.
_char_to_bool(c, b_vect) ==
    LET local == CharToBoolLoop(c, b_vect, 0)
    IN  b_vect

\* ---------------------------------------------------------------- inputs
\* doubles written by external writers: 0.1 (inexact as a float) and 1.5
SetVals == { << 1036831949, 1 >>, << 1069547520, 0 >> }

\* enable array written by external writers (connect() leaves all joints enabled)
EnableVals == { << TRUE, FALSE, TRUE, FALSE, FALSE >> }

\* content of memory that was never written
GarbageBytes == { 85 }

\* a float on the wire: most significant byte first
WireFloat(p) == ReverseBytes(FloatMem(p))

RECURSIVE Repeat(_, _)
Repeat(n, s) == IF n = 0 THEN << >> ELSE s \o Repeat(n - 1, s)

\* an incoming frame of the peer: positions, velocities, efforts, mask
PeerFrame(p, v, e, m) ==
    Repeat(NUMBER_OF_JOINTS, WireFloat(p)) \o Repeat(NUMBER_OF_JOINTS, WireFloat(v))
        \o Repeat(NUMBER_OF_JOINTS, WireFloat(e)) \o << m >>

FrameA == PeerFrame(1069547520, 1036831949, 1075838976, 5)
FrameB == PeerFrame(1075838976, 1069547520, 1036831949, 31)
\* a malformed 5-byte datagram
ShortD == SubSeq(FrameB, 1, 5)
\* a datagram one byte longer than _rcv_buf
LongD == FrameB \o << 7 >>

Datagrams == { FrameA, FrameB, ShortD, LongD }

\* ----------------------------------------------------------------- state
VARIABLES
    pcm,                \* main thread: where it is in connect() / the destructor
    pc,                 \* loop thread: where it is in _loop / _receive / a handler
    i,                  \* int i of _loop
    h_i,                \* int i of _handle_receive
    new_contents,       \* bool new_contents of _loop
    send_buf,           \* boost::array<char, N*FLOAT_LENGTH+1> send_buf of _loop
    _connected,
    _initialized,
    _no_packet_received,
    _ec,
    new_setpoints,
    new_motor_enables,
    joint_setpoints,
    motors_enabled,
    motors_active,
    joint_positions,
    joint_velocities,
    joint_efforts,
    state_mutex,        \* who holds state_mutex: "none", "loop"
    _rcv_buf,
    deadline,           \* _deadline's expiry: "inf", "pending" (in the future), "passed"
    wait_armed,         \* an async_wait on _deadline is outstanding
    recv_pending,       \* number of outstanding async_receive operations
    ready,              \* io_service: completed operations whose handlers wait to run
    stopped,            \* io_service.stopped()
    sock_open,
    sock_connected,
    interrupt_requested,\* _loop_thread.interrupt() was called
    crashed,            \* the process was aborted (std::terminate, segfault)
    emitted,            \* health messages printed since the counter was last 0
    tick,               \* history of the current tick: sp, en: the dirty flags when it
                        \* started; en2: new_motor_enables when it was tested; cnt: the
                        \* miss counter when it started; sent: a frame was handed to
                        \* _socket.send; len: length of the datagram received;
                        \* applied: the handler decoded a frame into the shared state
    snap                \* the last snapshot taken by an external reader

vars == << pcm, pc, i, h_i, new_contents, send_buf, _connected, _initialized,
           _no_packet_received, _ec, new_setpoints, new_motor_enables,
           joint_setpoints, motors_enabled, motors_active, joint_positions,
           joint_velocities, joint_efforts, state_mutex, _rcv_buf, deadline,
           wait_armed, recv_pending, ready, stopped, sock_open, sock_connected,
           interrupt_requested, crashed, emitted, tick, snap >>

sharedVars == << joint_setpoints, motors_enabled, motors_active, joint_positions,
                 joint_velocities, joint_efforts >>
flagVars == << new_setpoints, new_motor_enables >>
ioVars == << deadline, wait_armed, recv_pending, ready, stopped >>
sockVars == << sock_open, sock_connected >>
loopLocals == << i, h_i, new_contents, send_buf >>
statusVars == << _connected, _initialized >>

DtorStates == { "d_interrupt", "d_close", "d_join", "d_done" }

\* handlers queued on the io_service
DeadlineHandler == [h |-> "check_deadline", err |-> "none"]
ReceiveHandler(e) == [h |-> "handle_receive", err |-> e]

NoTick == [sp |-> FALSE, en |-> FALSE, en2 |-> FALSE, cnt |-> 0, sent |-> FALSE,
           len |-> 0, applied |-> FALSE]
NoSnap == << >>

\* ------------------------------------------------------------ constructor
\* SbrioDriver_UDP::SbrioDriver_UDP: the socket is opened and bound, the deadline is
\* set to infinity and _check_deadline() leaves one async_wait outstanding
Init ==
    /\ pcm = "constructed"
    /\ pc = "idle"
    /\ i = 0
    /\ h_i = 0
    /\ new_contents = FALSE
    /\ send_buf \in { Fill(SendLen, g) : g \in GarbageBytes }
    /\ _connected = FALSE
    /\ _initialized = FALSE
    /\ _no_packet_received = 0
    /\ _ec = "would_block"
    /\ new_setpoints = FALSE
    /\ new_motor_enables = FALSE
    /\ joint_setpoints = << >>
    /\ motors_enabled = << >>
    /\ motors_active = << >>
    /\ joint_positions = << >>
    /\ joint_velocities = << >>
    /\ joint_efforts = << >>
    /\ state_mutex = "none"
    /\ _rcv_buf \in { Fill(RcvLen, g) : g \in GarbageBytes \cup {0} }
    /\ deadline = "inf"
    /\ wait_armed = TRUE
    /\ recv_pending = 0
    /\ ready = << >>
    /\ stopped = FALSE
    /\ sock_open = TRUE
    /\ sock_connected = FALSE
    /\ interrupt_requested = FALSE
    /\ crashed = FALSE
    /\ emitted = {}
    /\ tick = NoTick
    /\ snap = NoSnap

\* -------------------------------------------------------------- connect()
\* connect(), up to the start of the loop thread: _socket.connect(_robot_ep, error);
\* on success the thread is started and _connected is set
Connect ==
    /\ ~crashed
    /\ pcm = "constructed"
    /\ \E ok \in BOOLEAN :
          /\ sock_connected' = ok
          /\ pc' = IF ok THEN "L_top" ELSE pc
          /\ _connected' = IF ok THEN TRUE ELSE _connected
    /\ pcm' = "c_init"
    /\ UNCHANGED << i, h_i, new_contents, send_buf, _initialized, _no_packet_received,
                    _ec, new_setpoints, new_motor_enables, joint_setpoints,
                    motors_enabled, motors_active, joint_positions, joint_velocities,
                    joint_efforts, state_mutex, _rcv_buf, deadline, wait_armed,
                    recv_pending, ready, stopped, sock_open, interrupt_requested,
                    crashed, emitted, tick, snap >>

\* the arrays after connect()'s pushes: N+1 zeros for the telemetry arrays, five
\* entries for setpoints, enables and active flags
ConnectArrays ==
    /\ joint_positions' = joint_positions \o Fill(NUMBER_OF_JOINTS + 1, ToDouble(0))
    /\ joint_velocities' = joint_velocities \o Fill(NUMBER_OF_JOINTS + 1, ToDouble(0))
    /\ joint_efforts' = joint_efforts \o Fill(NUMBER_OF_JOINTS + 1, ToDouble(0))
    /\ joint_setpoints' = joint_setpoints \o Fill(5, ToDouble(0))
    /\ motors_enabled' = motors_enabled \o Fill(5, TRUE)
    /\ motors_active' = motors_active \o Fill(5, TRUE)

\* connect(), the section under state_mutex.  The loop reads names_list[i] for
\* i = 0..NUMBER_OF_JOINTS of a 5-element vector: the last read is out of bounds and
\* either aborts the process or yields some string
ConnectInit ==
    /\ ~crashed
    /\ pcm = "c_init"
    /\ state_mutex = "none"
    /\ \E names_ok \in BOOLEAN :
          IF names_ok
          THEN /\ ConnectArrays
               /\ new_motor_enables' = TRUE
               /\ new_setpoints' = TRUE
               /\ _initialized' = TRUE
               /\ pcm' = "ready"
               /\ UNCHANGED crashed
          ELSE /\ crashed' = TRUE
               /\ UNCHANGED << sharedVars, flagVars, _initialized, pcm >>
    /\ UNCHANGED << pc, i, h_i, new_contents, send_buf, _connected,
                    _no_packet_received, _ec, state_mutex, _rcv_buf, deadline,
                    wait_armed, recv_pending, ready, stopped, sock_open,
                    sock_connected, interrupt_requested, emitted, tick, snap >>

\* ------------------------------------------------------------ _loop: send
\* content of a local array that is declared without an initializer: what the stack
\* slot held (the previous tick's buffer) or other garbage
Uninitialized(old) == { old } \cup { Fill(Len(old), g) : g \in GarbageBytes }

\* top of while(true): the locals are declared, new_setpoints is tested (no lock).
\* cap bounds the consecutive misses explored before teardown
LoopTop(cap) ==
    /\ ~crashed
    /\ pc = "L_top"
    /\ _no_packet_received < cap \/ pcm \in DtorStates
    /\ send_buf' \in Uninitialized(send_buf)
    /\ new_contents' = FALSE
    /\ pc' = IF new_setpoints THEN "L_lock1" ELSE "L_chk2"
    /\ tick' = [NoTick EXCEPT !.sp = new_setpoints, !.en = new_motor_enables,
                               !.cnt = _no_packet_received]
    /\ UNCHANGED << pcm, i, h_i, _connected, _initialized, _no_packet_received, _ec,
                    new_setpoints, new_motor_enables, joint_setpoints, motors_enabled,
                    motors_active, joint_positions, joint_velocities, joint_efforts,
                    state_mutex, _rcv_buf, deadline, wait_armed, recv_pending, ready,
                    stopped, sock_open, sock_connected, interrupt_requested, crashed,
                    emitted, snap >>

\* LoopLock1 without the lock_guard: the copy starts whoever holds the mutex
LoopLock1Unguarded ==
    /\ ~crashed
    /\ pc = "L_lock1"
    /\ i' = 0
    /\ pc' = "L_copy"
    /\ UNCHANGED << pcm, h_i, new_contents, send_buf, _connected, _initialized,
                    _no_packet_received, _ec, new_setpoints, new_motor_enables,
                    joint_setpoints, motors_enabled, motors_active, joint_positions,
                    joint_velocities, joint_efforts, state_mutex, _rcv_buf, deadline,
                    wait_armed, recv_pending, ready, stopped, sock_open,
                    sock_connected, interrupt_requested, crashed, emitted, tick, snap >>

\* boost::lock_guard<boost::mutex> state_guard(state_mutex), first section
LoopLock1 ==
    /\ ~crashed
    /\ pc = "L_lock1"
    /\ state_mutex = "none"
    /\ state_mutex' = "loop"
    /\ i' = 0
    /\ pc' = "L_copy"
    /\ UNCHANGED << pcm, h_i, new_contents, send_buf, _connected, _initialized,
                    _no_packet_received, _ec, new_setpoints, new_motor_enables,
                    joint_setpoints, motors_enabled, motors_active, joint_positions,
                    joint_velocities, joint_efforts, _rcv_buf, deadline, wait_armed,
                    recv_pending, ready, stopped, sock_open, sock_connected,
                    interrupt_requested, crashed, emitted, tick, snap >>

\* one iteration of for(i=0;i<NUMBER_OF_JOINTS;i++): setpoint i is converted to a
\* float, byte-reversed and copied to send_buf; after the last one the flag is cleared
\* and the guard releases the mutex
LoopCopy ==
    /\ ~crashed
    /\ pc = "L_copy"
    /\ IF i + 1 > Len(joint_setpoints)
       THEN /\ crashed' = TRUE
            /\ UNCHANGED << pc, i, new_contents, send_buf, new_setpoints, state_mutex >>
       ELSE /\ send_buf' = PutFloat(send_buf, i,
                               ReverseBytes(FloatMem(ToFloat(joint_setpoints[i + 1]))))
            /\ i' = i + 1
            /\ IF i + 1 < NUMBER_OF_JOINTS
               THEN UNCHANGED << pc, new_contents, new_setpoints, state_mutex >>
               ELSE /\ new_setpoints' = FALSE
                    /\ new_contents' = TRUE
                    /\ state_mutex' = "none"
                    /\ pc' = "L_chk2"
            /\ UNCHANGED crashed
    /\ UNCHANGED << pcm, h_i, _connected, _initialized, _no_packet_received, _ec,
                    new_motor_enables, joint_setpoints, motors_enabled, motors_active,
                    joint_positions, joint_velocities, joint_efforts, _rcv_buf,
                    deadline, wait_armed, recv_pending, ready, stopped, sock_open,
                    sock_connected, interrupt_requested, emitted, tick, snap >>

\* if (new_motor_enables), tested without the lock
LoopChk2 ==
    /\ ~crashed
    /\ pc = "L_chk2"
    /\ pc' = IF new_motor_enables THEN "L_lock2" ELSE "L_send"
    /\ tick' = [tick EXCEPT !.en2 = new_motor_enables]
    /\ UNCHANGED << pcm, i, h_i, new_contents, send_buf, _connected, _initialized,
                    _no_packet_received, _ec, new_setpoints, new_motor_enables,
                    joint_setpoints, motors_enabled, motors_active, joint_positions,
                    joint_velocities, joint_efforts, state_mutex, _rcv_buf, deadline,
                    wait_armed, recv_pending, ready, stopped, sock_open,
                    sock_connected, interrupt_requested, crashed, emitted, snap >>

\* boost::lock_guard<boost::mutex> state_guard(state_mutex), second section
LoopLock2 ==
    /\ ~crashed
    /\ pc = "L_lock2"
    /\ state_mutex = "none"
    /\ state_mutex' = "loop"
    /\ pc' = "L_enc"
    /\ UNCHANGED << pcm, i, h_i, new_contents, send_buf, _connected, _initialized,
                    _no_packet_received, _ec, new_setpoints, new_motor_enables,
                    joint_setpoints, motors_enabled, motors_active, joint_positions,
                    joint_velocities, joint_efforts, _rcv_buf, deadline, wait_armed,
                    recv_pending, ready, stopped, sock_open, sock_connected,
                    interrupt_requested, crashed, emitted, tick, snap >>

\* LoopEnc without new_contents = true
LoopEncNoContents ==
    /\ ~crashed
    /\ pc = "L_enc"
    /\ \E oob \in (IF motors_enabled = << >> THEN { FALSE } ELSE BOOLEAN) :
          send_buf' = [send_buf EXCEPT
                          ![NUMBER_OF_JOINTS * FLOAT_LENGTH + 1] =
                              _bool_to_char(motors_enabled, oob)]
    /\ new_motor_enables' = FALSE
    /\ state_mutex' = "none"
    /\ pc' = "L_send"
    /\ UNCHANGED << pcm, i, h_i, new_contents, _connected, _initialized,
                    _no_packet_received, _ec, new_setpoints, joint_setpoints,
                    motors_enabled, motors_active, joint_positions, joint_velocities,
                    joint_efforts, _rcv_buf, deadline, wait_armed, recv_pending, ready,
                    stopped, sock_open, sock_connected, interrupt_requested, crashed,
                    emitted, tick, snap >>

\* send_buf[NUMBER_OF_JOINTS*sizeof(float)] = _bool_to_char(motors_enabled); the flag
\* is cleared and the guard releases the mutex
LoopEnc ==
    /\ ~crashed
    /\ pc = "L_enc"
    /\ \E oob \in (IF motors_enabled = << >> THEN { FALSE } ELSE BOOLEAN) :
          send_buf' = [send_buf EXCEPT
                          ![NUMBER_OF_JOINTS * FLOAT_LENGTH + 1] =
                              _bool_to_char(motors_enabled, oob)]
    /\ new_motor_enables' = FALSE
    /\ new_contents' = TRUE
    /\ state_mutex' = "none"
    /\ pc' = "L_send"
    /\ UNCHANGED << pcm, i, h_i, _connected, _initialized, _no_packet_received, _ec,
                    new_setpoints, joint_setpoints, motors_enabled, motors_active,
                    joint_positions, joint_velocities, joint_efforts, _rcv_buf,
                    deadline, wait_armed, recv_pending, ready, stopped, sock_open,
                    sock_connected, interrupt_requested, crashed, emitted, tick, snap >>

\* if (new_contents) _socket.send(boost::asio::buffer(send_buf)): the overload without
\* an error_code throws on failure, and nothing in the thread catches it
LoopSend ==
    /\ ~crashed
    /\ pc = "L_send"
    /\ IF new_contents
       THEN \E sent \in (IF sock_open /\ sock_connected THEN BOOLEAN ELSE { FALSE }) :
               /\ tick' = [tick EXCEPT !.sent = TRUE]
               /\ IF sent
                  THEN /\ pc' = "R_start"
                       /\ UNCHANGED crashed
                  ELSE /\ crashed' = TRUE
                       /\ UNCHANGED pc
       ELSE /\ pc' = "R_start"
            /\ UNCHANGED << tick, crashed >>
    /\ UNCHANGED << pcm, i, h_i, new_contents, send_buf, _connected, _initialized,
                    _no_packet_received, _ec, new_setpoints, new_motor_enables,
                    joint_setpoints, motors_enabled, motors_active, joint_positions,
                    joint_velocities, joint_efforts, state_mutex, _rcv_buf, deadline,
                    wait_armed, recv_pending, ready, stopped, sock_open,
                    sock_connected, interrupt_requested, emitted, snap >>

\* --------------------------------------------------------- _loop: receive
\* the handlers of the receives that _socket.cancel() / close() completes
Aborted(n) == Repeat(n, << ReceiveHandler("operation_aborted") >>)

\* _receive(timeout), up to the do-while: _deadline.expires_from_now(timeout) moves the
\* expiry and cancels the outstanding wait (its handler is queued), _ec is reset and
\* the asynchronous receive is started
LoopReceiveStart ==
    /\ ~crashed
    /\ pc = "R_start"
    /\ deadline' = "pending"
    /\ wait_armed' = FALSE
    /\ _ec' = "would_block"
    /\ LET q == IF wait_armed THEN Append(ready, DeadlineHandler) ELSE ready
       IN  IF sock_open
           THEN /\ recv_pending' = recv_pending + 1
                /\ ready' = q
           ELSE /\ ready' = Append(q, ReceiveHandler("bad_descriptor"))
                /\ UNCHANGED recv_pending
    /\ pc' = "R_run"
    /\ UNCHANGED << pcm, i, h_i, new_contents, send_buf, _connected, _initialized,
                    _no_packet_received, new_setpoints, new_motor_enables,
                    joint_setpoints, motors_enabled, motors_active, joint_positions,
                    joint_velocities, joint_efforts, state_mutex, _rcv_buf, stopped,
                    sock_open, sock_connected, interrupt_requested, crashed, emitted,
                    tick, snap >>

\* _check_deadline that cancels without comparing the expiry with the clock
_check_deadlineAlways(q) ==
    /\ ready' = q \o Aborted(recv_pending)
    /\ recv_pending' = 0
    /\ deadline' = "inf"
    /\ wait_armed' = TRUE

\* _check_deadline() run as a handler, q being the rest of the handler queue: if the
\* expiry is not later than now the socket's receive is cancelled and the expiry set
\* to infinity; the actor then waits on the timer again
_check_deadline(q) ==
    /\ IF deadline = "passed"
       THEN /\ ready' = q \o Aborted(recv_pending)
            /\ recv_pending' = 0
            /\ deadline' = "inf"
       ELSE /\ ready' = q
            /\ UNCHANGED << recv_pending, deadline >>
    /\ wait_armed' = TRUE

\* _handle_receive(error, bytes_transferred), up to the lock: _ec = error, and the
\* frame is handled when error is success or message_size, whatever its length
_handle_receive(error) ==
    /\ _ec' = error
    /\ pc' = IF error \in { "success", "message_size" } THEN "H_lock" ELSE "R_chk"

\* _io_service.run_one(): returns at once when the io_service is stopped, otherwise
\* blocks until a handler is ready and runs it
LoopRunOne ==
    /\ ~crashed
    /\ pc = "R_run"
    /\ IF stopped
       THEN /\ pc' = "R_chk"
            /\ UNCHANGED << _ec, ioVars >>
       ELSE /\ ready # << >>
            /\ IF Head(ready).h = "check_deadline"
               THEN /\ _check_deadline(Tail(ready))
                    /\ pc' = "R_chk"
                    /\ UNCHANGED << _ec, stopped >>
               ELSE /\ _handle_receive(Head(ready).err)
                    /\ ready' = Tail(ready)
                    /\ UNCHANGED << deadline, wait_armed, recv_pending, stopped >>
    /\ UNCHANGED << pcm, i, h_i, new_contents, send_buf, _connected, _initialized,
                    _no_packet_received, new_setpoints, new_motor_enables,
                    joint_setpoints, motors_enabled, motors_active, joint_positions,
                    joint_velocities, joint_efforts, state_mutex, _rcv_buf, sock_open,
                    sock_connected, interrupt_requested, crashed, emitted, tick, snap >>

\* boost::lock_guard<boost::mutex> state_guard(state_mutex) in _handle_receive
HandleLock ==
    /\ ~crashed
    /\ pc = "H_lock"
    /\ state_mutex = "none"
    /\ state_mutex' = "loop"
    /\ h_i' = 0
    /\ pc' = "H_decode"
    /\ UNCHANGED << pcm, i, new_contents, send_buf, _connected, _initialized,
                    _no_packet_received, _ec, new_setpoints, new_motor_enables,
                    joint_setpoints, motors_enabled, motors_active, joint_positions,
                    joint_velocities, joint_efforts, _rcv_buf, deadline, wait_armed,
                    recv_pending, ready, stopped, sock_open, sock_connected,
                    interrupt_requested, crashed, emitted, tick, snap >>

\* one iteration of the decoding loop of _handle_receive; after the last one
\* _char_to_bool(_rcv_buf[vector_length*3], motors_active) is called and the guard
\* releases the mutex.  Writing element i of a vector that has none aborts the process
HandleDecode ==
    /\ ~crashed
    /\ pc = "H_decode"
    /\ IF h_i + 1 > Len(joint_positions)
       THEN /\ crashed' = TRUE
            /\ UNCHANGED << pc, h_i, sharedVars, state_mutex, tick >>
       ELSE /\ joint_positions' = [joint_positions EXCEPT
                   ![h_i + 1] = _binary_to_double(_rcv_buf, h_i * FLOAT_LENGTH)]
            /\ joint_velocities' = [joint_velocities EXCEPT
                   ![h_i + 1] = _binary_to_double(_rcv_buf,
                                                  h_i * FLOAT_LENGTH + vector_length)]
            /\ joint_efforts' = [joint_efforts EXCEPT
                   ![h_i + 1] = _binary_to_double(_rcv_buf,
                                                  h_i * FLOAT_LENGTH + vector_length * 2)]
            /\ h_i' = h_i + 1
            /\ IF h_i + 1 < NUMBER_OF_JOINTS
               THEN UNCHANGED << pc, motors_active, state_mutex, tick >>
               ELSE /\ motors_active' =
                           _char_to_bool(_rcv_buf[vector_length * 3 + 1], motors_active)
                    /\ tick' = [tick EXCEPT !.applied = TRUE]
                    /\ state_mutex' = "none"
                    /\ pc' = "R_chk"
            /\ UNCHANGED << crashed, joint_setpoints, motors_enabled >>
    /\ UNCHANGED << pcm, i, new_contents, send_buf, _connected, _initialized,
                    _no_packet_received, _ec, new_setpoints, new_motor_enables,
                    _rcv_buf, deadline, wait_armed, recv_pending, ready, stopped,
                    sock_open, sock_connected, interrupt_requested, emitted, snap >>

\* LoopRunChk of a _receive that calls run_one() once and returns
LoopRunChkOnce ==
    /\ ~crashed
    /\ pc = "R_chk"
    /\ pc' = "L_err"
    /\ UNCHANGED << pcm, i, h_i, new_contents, send_buf, _connected, _initialized,
                    _no_packet_received, _ec, new_setpoints, new_motor_enables,
                    joint_setpoints, motors_enabled, motors_active, joint_positions,
                    joint_velocities, joint_efforts, state_mutex, _rcv_buf, deadline,
                    wait_armed, recv_pending, ready, stopped, sock_open,
                    sock_connected, interrupt_requested, crashed, emitted, tick, snap >>

\* while (_ec == boost::asio::error::would_block)
LoopRunChk ==
    /\ ~crashed
    /\ pc = "R_chk"
    /\ pc' = IF _ec = "would_block" THEN "R_run" ELSE "L_err"
    /\ UNCHANGED << pcm, i, h_i, new_contents, send_buf, _connected, _initialized,
                    _no_packet_received, _ec, new_setpoints, new_motor_enables,
                    joint_setpoints, motors_enabled, motors_active, joint_positions,
                    joint_velocities, joint_efforts, state_mutex, _rcv_buf, deadline,
                    wait_armed, recv_pending, ready, stopped, sock_open,
                    sock_connected, interrupt_requested, crashed, emitted, tick, snap >>

\* Messages with the thresholds compared by >= instead of >
MessagesFromThreshold(n) ==
    IF n >= WARN_AFTER
    THEN { "warning" } \cup (IF n >= TIMEOUT_AFTER THEN { "timeout" } ELSE {})
    ELSE {}

\* the messages printed for a miss counter n
Messages(n) ==
    IF n > WARN_AFTER
    THEN { "warning" } \cup (IF n > TIMEOUT_AFTER THEN { "timeout" } ELSE {})
    ELSE {}

\* LoopErr that treats the connection timeout as the end of the link
LoopErrGivesUp ==
    /\ ~crashed
    /\ pc = "L_err"
    /\ IF _ec # "success"
       THEN /\ _no_packet_received' = _no_packet_received + 1
            /\ emitted' = emitted \cup Messages(_no_packet_received + 1)
            /\ _connected' = IF _no_packet_received + 1 > TIMEOUT_AFTER
                             THEN FALSE ELSE _connected
            /\ pc' = IF _no_packet_received + 1 > TIMEOUT_AFTER
                     THEN "terminated" ELSE "L_sleep"
       ELSE /\ _no_packet_received' = 0
            /\ emitted' = {}
            /\ pc' = "L_sleep"
            /\ UNCHANGED _connected
    /\ UNCHANGED << pcm, i, h_i, new_contents, send_buf, _initialized, _ec,
                    new_setpoints, new_motor_enables, joint_setpoints, motors_enabled,
                    motors_active, joint_positions, joint_velocities, joint_efforts,
                    state_mutex, _rcv_buf, deadline, wait_armed, recv_pending, ready,
                    stopped, sock_open, sock_connected, interrupt_requested, crashed,
                    tick, snap >>

\* if (_ec) { _no_packet_received++; messages } else _no_packet_received = 0
LoopErr ==
    /\ ~crashed
    /\ pc = "L_err"
    /\ IF _ec # "success"
       THEN /\ _no_packet_received' = _no_packet_received + 1
            /\ emitted' = emitted \cup Messages(_no_packet_received + 1)
       ELSE /\ _no_packet_received' = 0
            /\ emitted' = {}
    /\ pc' = "L_sleep"
    /\ UNCHANGED << pcm, i, h_i, new_contents, send_buf, _connected, _initialized, _ec,
                    new_setpoints, new_motor_enables, joint_setpoints, motors_enabled,
                    motors_active, joint_positions, joint_velocities, joint_efforts,
                    state_mutex, _rcv_buf, deadline, wait_armed, recv_pending, ready,
                    stopped, sock_open, sock_connected, interrupt_requested, crashed,
                    tick, snap >>

\* boost::this_thread::sleep(milliseconds(2)): an interruption point; a requested
\* interruption ends the thread, otherwise the next tick starts
LoopSleep ==
    /\ ~crashed
    /\ pc = "L_sleep"
    /\ pc' = IF interrupt_requested THEN "terminated" ELSE "L_top"
    /\ UNCHANGED << pcm, i, h_i, new_contents, send_buf, _connected, _initialized,
                    _no_packet_received, _ec, new_setpoints, new_motor_enables,
                    joint_setpoints, motors_enabled, motors_active, joint_positions,
                    joint_velocities, joint_efforts, state_mutex, _rcv_buf, deadline,
                    wait_armed, recv_pending, ready, stopped, sock_open,
                    sock_connected, interrupt_requested, crashed, emitted, tick, snap >>

\* ----------------------------------------------------------- environment
\* the buffer after a datagram d was received into it: at most Len(buf) bytes of d
\* are stored, the bytes behind a shorter d are left as they were
Received(buf, d) == [k \in 1..Len(buf) |-> IF k <= Len(d) THEN d[k] ELSE buf[k]]

\* a datagram d of the peer is at the socket and the reactor, run by run_one(),
\* completes the outstanding receive with it; one that does not fit the buffer
\* completes with message_size.  (A datagram that arrived earlier waits in the
\* socket until then, which the program cannot tell apart.)
Deliver(d) ==
    /\ ~crashed
    /\ pc = "R_run"
    /\ ~stopped
    /\ sock_open
    /\ recv_pending > 0
    /\ _rcv_buf' = Received(_rcv_buf, d)
    /\ recv_pending' = recv_pending - 1
    /\ ready' = Append(ready, ReceiveHandler(
                    IF Len(d) > Len(_rcv_buf) THEN "message_size" ELSE "success"))
    /\ tick' = [tick EXCEPT !.len = Len(d)]
    /\ UNCHANGED << pcm, pc, i, h_i, new_contents, send_buf, _connected, _initialized,
                    _no_packet_received, _ec, new_setpoints, new_motor_enables,
                    joint_setpoints, motors_enabled, motors_active, joint_positions,
                    joint_velocities, joint_efforts, state_mutex, deadline, wait_armed,
                    stopped, sock_open, sock_connected, interrupt_requested, crashed,
                    emitted, snap >>

\* the outstanding receive fails (an ICMP error reported on the connected socket)
RecvError ==
    /\ ~crashed
    /\ pc = "R_run"
    /\ ~stopped
    /\ recv_pending > 0
    /\ sock_connected
    /\ recv_pending' = recv_pending - 1
    /\ ready' = Append(ready, ReceiveHandler("connection_refused"))
    /\ UNCHANGED << pcm, pc, i, h_i, new_contents, send_buf, _connected, _initialized,
                    _no_packet_received, _ec, new_setpoints, new_motor_enables,
                    joint_setpoints, motors_enabled, motors_active, joint_positions,
                    joint_velocities, joint_efforts, state_mutex, _rcv_buf, deadline,
                    wait_armed, stopped, sock_open, sock_connected,
                    interrupt_requested, crashed, emitted, tick, snap >>

\* the clock reaches the expiry of _deadline; an outstanding wait completes.  (The
\* program observes the clock only inside run_one() and the handlers it runs.)
TimePasses ==
    /\ ~crashed
    /\ pc = "R_run"
    /\ deadline = "pending"
    /\ deadline' = "passed"
    /\ IF wait_armed
       THEN /\ ready' = Append(ready, DeadlineHandler)
            /\ wait_armed' = FALSE
       ELSE UNCHANGED << ready, wait_armed >>
    /\ UNCHANGED << pcm, pc, i, h_i, new_contents, send_buf, _connected, _initialized,
                    _no_packet_received, _ec, new_setpoints, new_motor_enables,
                    joint_setpoints, motors_enabled, motors_active, joint_positions,
                    joint_velocities, joint_efforts, state_mutex, _rcv_buf,
                    recv_pending, stopped, sock_open, sock_connected,
                    interrupt_requested, crashed, emitted, tick, snap >>

\* positions of the loop thread outside _receive
OutsideReceive ==
    { "L_top", "L_lock1", "L_copy", "L_chk2", "L_lock2", "L_enc", "L_send", "R_start",
      "L_err", "L_sleep" }

\* the clock reaches the expiry of _deadline while the loop thread is not inside
\* run_one() (it sleeps, or builds a frame): nothing runs the io_service, so the
\* outstanding wait stays where it is until the next _receive
TimePassesOutsideReceive ==
    /\ ~crashed
    /\ pc \in OutsideReceive
    /\ deadline = "pending"
    /\ deadline' = "passed"
    /\ UNCHANGED << pcm, pc, i, h_i, new_contents, send_buf, _connected, _initialized,
                    _no_packet_received, _ec, new_setpoints, new_motor_enables,
                    joint_setpoints, motors_enabled, motors_active, joint_positions,
                    joint_velocities, joint_efforts, state_mutex, _rcv_buf, wait_armed,
                    recv_pending, ready, stopped, sock_open, sock_connected,
                    interrupt_requested, crashed, emitted, tick, snap >>

\* ------------------------------------------------------ external threads
\* an external writer: lock, overwrite the whole setpoint array, mark it dirty, unlock
WriteSetpoints(v) ==
    /\ ~crashed
    /\ pcm = "ready"
    /\ state_mutex = "none"
    /\ joint_setpoints' = Fill(Len(joint_setpoints), v)
    /\ new_setpoints' = TRUE
    /\ UNCHANGED << pcm, pc, i, h_i, new_contents, send_buf, _connected, _initialized,
                    _no_packet_received, _ec, new_motor_enables, motors_enabled,
                    motors_active, joint_positions, joint_velocities, joint_efforts,
                    state_mutex, _rcv_buf, deadline, wait_armed, recv_pending, ready,
                    stopped, sock_open, sock_connected, interrupt_requested, crashed,
                    emitted, tick, snap >>

\* an external writer: lock, overwrite the whole enable array, mark it dirty, unlock
WriteEnables(e) ==
    /\ ~crashed
    /\ pcm = "ready"
    /\ state_mutex = "none"
    /\ motors_enabled' = e
    /\ new_motor_enables' = TRUE
    /\ UNCHANGED << pcm, pc, i, h_i, new_contents, send_buf, _connected, _initialized,
                    _no_packet_received, _ec, new_setpoints, joint_setpoints,
                    motors_active, joint_positions, joint_velocities, joint_efforts,
                    state_mutex, _rcv_buf, deadline, wait_armed, recv_pending, ready,
                    stopped, sock_open, sock_connected, interrupt_requested, crashed,
                    emitted, tick, snap >>

\* an external reader: lock, copy the telemetry arrays, unlock
Snapshot ==
    /\ ~crashed
    /\ pcm = "ready"
    /\ state_mutex = "none"
    /\ snap' = << joint_positions, joint_velocities, joint_efforts, motors_active >>
    /\ UNCHANGED << pcm, pc, i, h_i, new_contents, send_buf, _connected, _initialized,
                    _no_packet_received, _ec, new_setpoints, new_motor_enables,
                    joint_setpoints, motors_enabled, motors_active, joint_positions,
                    joint_velocities, joint_efforts, state_mutex, _rcv_buf, deadline,
                    wait_armed, recv_pending, ready, stopped, sock_open,
                    sock_connected, interrupt_requested, crashed, emitted, tick >>

\* ------------------------------------------------------------- destructor
\* _io_service.stop()
DtorStop ==
    /\ ~crashed
    /\ pcm \in { "constructed", "ready" }
    /\ stopped' = TRUE
    /\ pcm' = "d_interrupt"
    /\ UNCHANGED << pc, i, h_i, new_contents, send_buf, _connected, _initialized,
                    _no_packet_received, _ec, new_setpoints, new_motor_enables,
                    joint_setpoints, motors_enabled, motors_active, joint_positions,
                    joint_velocities, joint_efforts, state_mutex, _rcv_buf, deadline,
                    wait_armed, recv_pending, ready, sock_open, sock_connected,
                    interrupt_requested, crashed, emitted, tick, snap >>

\* _loop_thread.interrupt()
DtorInterrupt ==
    /\ ~crashed
    /\ pcm = "d_interrupt"
    /\ interrupt_requested' = TRUE
    /\ pcm' = "d_close"
    /\ UNCHANGED << pc, i, h_i, new_contents, send_buf, _connected, _initialized,
                    _no_packet_received, _ec, new_setpoints, new_motor_enables,
                    joint_setpoints, motors_enabled, motors_active, joint_positions,
                    joint_velocities, joint_efforts, state_mutex, _rcv_buf, deadline,
                    wait_armed, recv_pending, ready, stopped, sock_open,
                    sock_connected, crashed, emitted, tick, snap >>

\* if (_socket.is_open()) { _socket.shutdown(shutdown_both); _socket.close(); }:
\* shutdown() throws on a socket that was never connected; close() completes the
\* outstanding receive with operation_aborted
DtorClose ==
    /\ ~crashed
    /\ pcm = "d_close"
    /\ IF sock_open /\ ~sock_connected
       THEN /\ crashed' = TRUE
            /\ UNCHANGED << pcm, sock_open, ready, recv_pending >>
       ELSE /\ sock_open' = FALSE
            /\ ready' = ready \o Aborted(recv_pending)
            /\ recv_pending' = 0
            /\ pcm' = "d_join"
            /\ UNCHANGED crashed
    /\ UNCHANGED << pc, i, h_i, new_contents, send_buf, _connected, _initialized,
                    _no_packet_received, _ec, new_setpoints, new_motor_enables,
                    joint_setpoints, motors_enabled, motors_active, joint_positions,
                    joint_velocities, joint_efforts, state_mutex, _rcv_buf, deadline,
                    wait_armed, stopped, sock_connected, interrupt_requested, emitted,
                    tick, snap >>

\* _loop_thread.join(): returns when the loop thread has ended (or was never started)
DtorJoin ==
    /\ ~crashed
    /\ pcm = "d_join"
    /\ pc \in { "idle", "terminated" }
    /\ pcm' = "d_done"
    /\ UNCHANGED << pc, i, h_i, new_contents, send_buf, _connected, _initialized,
                    _no_packet_received, _ec, new_setpoints, new_motor_enables,
                    joint_setpoints, motors_enabled, motors_active, joint_positions,
                    joint_velocities, joint_efforts, state_mutex, _rcv_buf, deadline,
                    wait_armed, recv_pending, ready, stopped, sock_open,
                    sock_connected, interrupt_requested, crashed, emitted, tick, snap >>

\* ------------------------------------------------------- element accesses
\* std::vector<std::string> names_list(args, args+5)
names_list ==
    << "p4_hand_roll", "p4_hand_pitch", "p4_instrument_slide", "p4_instrument_roll",
       "p4_instrument_pitch" >>

\* the indices i of names_list[i] in connect(): for(i=0;i<NUMBER_OF_JOINTS+1;i++)
ConnectNameReads == 0..NUMBER_OF_JOINTS

\* the indices b_vect.size()-i read by _bool_to_char: for(i=0;i<b_vect.size();i++)
BoolToCharReads(b_vect) == { Len(b_vect) - j : j \in 0..(Len(b_vect) - 1) }

\* index idx (counted from 0) is an element of the vector vec
InBounds(idx, vec) == idx \in 0..(Len(vec) - 1)

\* ------------------------------------------------------- codec, in isolation
\* the codec helpers applied to inputs of their whole domain: _bool_to_char and
\* _char_to_bool to boolean arrays of 1..MaxFlags elements, the float conversion of
\* _loop and _binary_to_double to sample float patterns at every joint offset
\* enable arrays a caller may pass
BoolArrays == UNION { [1..n -> BOOLEAN] : n \in 1..MaxFlags }

\* bytes a float pattern is sampled from; the most significant byte has bit 7 clear
ByteSamples == { 0, 1, 128, 255 }
HighByteSamples == { 0, 63, 127 }

\* sample doubles: every float pattern built from the sample bytes, exact or not
TestDoubles ==
    { << MemFloat(<< b1, b2, b3, b4 >>), r >> :
        b1 \in ByteSamples, b2 \in ByteSamples, b3 \in ByteSamples,
        b4 \in HighByteSamples, r \in { 0, 1 } }

\* a driver object on which only the codec helpers are exercised: either an enable
\* array (and an array for the unpacked flags) or one setpoint value and a joint index
InitCodec ==
    /\ pcm = "codec"
    /\ h_i = 0
    /\ new_contents = FALSE
    /\ send_buf \in { Fill(SendLen, g) : g \in GarbageBytes }
    /\ _connected = FALSE
    /\ _initialized = FALSE
    /\ _no_packet_received = 0
    /\ _ec = "would_block"
    /\ new_setpoints = FALSE
    /\ new_motor_enables = FALSE
    /\ joint_velocities = << >>
    /\ joint_efforts = << >>
    /\ state_mutex = "none"
    /\ _rcv_buf \in { Fill(RcvLen, g) : g \in GarbageBytes }
    /\ deadline = "inf"
    /\ wait_armed = TRUE
    /\ recv_pending = 0
    /\ ready = << >>
    /\ stopped = FALSE
    /\ sock_open = TRUE
    /\ sock_connected = FALSE
    /\ interrupt_requested = FALSE
    /\ crashed = FALSE
    /\ emitted = {}
    /\ tick = NoTick
    /\ snap = NoSnap
    /\ \/ /\ pc = "K_flags"
          /\ i = 0
          /\ motors_enabled \in BoolArrays
          /\ motors_active \in { Fill(Len(motors_enabled), a) : a \in BOOLEAN }
          /\ joint_setpoints = << >>
          /\ joint_positions = << >>
       \/ /\ pc = "K_float"
          /\ i \in 0..(NUMBER_OF_JOINTS - 1)
          /\ motors_enabled = << >>
          /\ motors_active = << >>
          /\ joint_setpoints \in { Fill(NUMBER_OF_JOINTS, d) : d \in TestDoubles }
          /\ joint_positions = Fill(NUMBER_OF_JOINTS, ToDouble(0))

\* send_buf[NUMBER_OF_JOINTS*sizeof(float)] = _bool_to_char(motors_enabled)
CodecPack ==
    /\ pc = "K_flags"
    /\ \E oob \in BOOLEAN :
          send_buf' = [send_buf EXCEPT
                          ![NUMBER_OF_JOINTS * FLOAT_LENGTH + 1] =
                              _bool_to_char(motors_enabled, oob)]
    /\ pc' = "K_packed"
    /\ UNCHANGED << pcm, i, h_i, new_contents, _connected, _initialized,
                    _no_packet_received, _ec, new_setpoints, new_motor_enables,
                    joint_setpoints, motors_enabled, motors_active, joint_positions,
                    joint_velocities, joint_efforts, state_mutex, _rcv_buf, deadline,
                    wait_armed, recv_pending, ready, stopped, sock_open,
                    sock_connected, interrupt_requested, crashed, emitted, tick, snap >>

\* _char_to_bool(c, motors_active) on the byte just packed
CodecUnpack ==
    /\ pc = "K_packed"
    /\ motors_active' =
           _char_to_bool(send_buf[NUMBER_OF_JOINTS * FLOAT_LENGTH + 1], motors_active)
    /\ pc' = "K_unpacked"
    /\ UNCHANGED << pcm, i, h_i, new_contents, send_buf, _connected, _initialized,
                    _no_packet_received, _ec, new_setpoints, new_motor_enables,
                    joint_setpoints, motors_enabled, joint_positions, joint_velocities,
                    joint_efforts, state_mutex, _rcv_buf, deadline, wait_armed,
                    recv_pending, ready, stopped, sock_open, sock_connected,
                    interrupt_requested, crashed, emitted, tick, snap >>

\* the body of the copy loop of _loop for joint i: cast, byte reversal, memcpy
CodecEncode ==
    /\ pc = "K_float"
    /\ send_buf' = PutFloat(send_buf, i,
                            ReverseBytes(FloatMem(ToFloat(joint_setpoints[i + 1]))))
    /\ pc' = "K_encoded"
    /\ UNCHANGED << pcm, i, h_i, new_contents, _connected, _initialized,
                    _no_packet_received, _ec, new_setpoints, new_motor_enables,
                    joint_setpoints, motors_enabled, motors_active, joint_positions,
                    joint_velocities, joint_efforts, state_mutex, _rcv_buf, deadline,
                    wait_armed, recv_pending, ready, stopped, sock_open,
                    sock_connected, interrupt_requested, crashed, emitted, tick, snap >>

\* _binary_to_double(&send_buf[0], i*FLOAT_LENGTH) on the bytes just encoded
CodecDecode ==
    /\ pc = "K_encoded"
    /\ joint_positions' = [joint_positions EXCEPT
                              ![i + 1] = _binary_to_double(send_buf, i * FLOAT_LENGTH)]
    /\ pc' = "K_decoded"
    /\ UNCHANGED << pcm, i, h_i, new_contents, send_buf, _connected, _initialized,
                    _no_packet_received, _ec, new_setpoints, new_motor_enables,
                    joint_setpoints, motors_enabled, motors_active, joint_velocities,
                    joint_efforts, state_mutex, _rcv_buf, deadline, wait_armed,
                    recv_pending, ready, stopped, sock_open, sock_connected,
                    interrupt_requested, crashed, emitted, tick, snap >>

\* --------------------------------------------------------- specifications
LoopStep(cap) ==
    \/ LoopTop(cap)
    \/ LoopLock1
    \/ LoopCopy
    \/ LoopChk2
    \/ LoopLock2
    \/ LoopEnc
    \/ LoopSend
    \/ LoopReceiveStart
    \/ LoopRunOne
    \/ LoopRunChk
    \/ LoopErr
    \/ LoopSleep

\* the link in use: connect(), the loop, frames of the peer, writers and readers
Next ==
    \/ Connect
    \/ ConnectInit
    \/ LoopStep(MaxMiss)
    \/ HandleLock
    \/ HandleDecode
    \/ \E d \in { FrameA, FrameB } : Deliver(d)
    \/ TimePasses
    \/ \E v \in SetVals : WriteSetpoints(v)
    \/ \E e \in EnableVals : WriteEnables(e)
    \/ Snapshot

Spec == Init /\ [][Next]_vars

\* the receiving side: every kind of datagram and receive error, no external threads
NextRx ==
    \/ Connect
    \/ ConnectInit
    \/ LoopStep(MaxMiss)
    \/ HandleLock
    \/ HandleDecode
    \/ \E d \in Datagrams : Deliver(d)
    \/ RecvError
    \/ TimePasses

SpecRx == Init /\ [][NextRx]_vars

\* a peer that sends nothing
NextSilent ==
    \/ Connect
    \/ ConnectInit
    \/ LoopStep(SilentTicks)
    \/ RecvError
    \/ TimePasses

SpecSilent == Init /\ [][NextSilent]_vars

\* the life of the link up to its teardown
NextLife ==
    \/ Connect
    \/ ConnectInit
    \/ LoopStep(MaxMiss)
    \/ HandleLock
    \/ HandleDecode
    \/ Deliver(FrameA)
    \/ TimePasses
    \/ DtorStop
    \/ DtorInterrupt
    \/ DtorClose
    \/ DtorJoin

SpecLife == Init /\ [][NextLife]_vars

\* the loop thread and the destructor keep running once started, and time passes
FairSpec ==
    /\ SpecLife
    /\ WF_vars(LoopStep(MaxMiss))
    /\ WF_vars(HandleLock)
    /\ WF_vars(HandleDecode)
    /\ WF_vars(TimePasses)
    /\ WF_vars(DtorInterrupt)
    /\ WF_vars(DtorClose)
    /\ WF_vars(DtorJoin)

\* the receiving side with the clock running at every point of the loop
NextTimer ==
    \/ Connect
    \/ ConnectInit
    \/ LoopStep(MaxMiss)
    \/ HandleLock
    \/ HandleDecode
    \/ \E d \in Datagrams : Deliver(d)
    \/ RecvError
    \/ TimePasses
    \/ TimePassesOutsideReceive

SpecTimer == Init /\ [][NextTimer]_vars

\* the codec helpers on their own
NextCodec ==
    \/ CodecPack
    \/ CodecUnpack
    \/ CodecEncode
    \/ CodecDecode

SpecCodec == InitCodec /\ [][NextCodec]_vars

\* ---------------------------------------------------------------- claims
\* the bytes of a setpoint d in an outgoing frame
EncFloat(d) == ReverseBytes(FloatMem(ToFloat(d)))

\* the four bytes of joint k (counted from 1) in a buffer
BufFloat(buf, k) == SubSeq(buf, (k - 1) * FLOAT_LENGTH + 1, k * FLOAT_LENGTH)

\* the first NUMBER_OF_JOINTS elements of an array
FirstN(a) == SubSeq(a, 1, NUMBER_OF_JOINTS)

\* the N values decoded from a buffer at byte offset off
DecodeAt(buf, off) ==
    [k \in 1..NUMBER_OF_JOINTS |-> _binary_to_double(buf, (k - 1) * FLOAT_LENGTH + off)]

\* bit k (0 = least significant) of the byte c
Bit(c, k) == (c \div (2 ^ k)) % 2 = 1

\* the loop thread is inside _receive
InReceive == pc \in { "R_run", "R_chk", "H_lock", "H_decode" }

\* C1: every call of _receive returns, with _ec different from would_block, even if
\* no datagram ever arrives (or the process was aborted meanwhile)
C1_ReceiveReturns ==
    InReceive ~> ((pc = "L_err" /\ _ec # "would_block") \/ crashed)

C3_DirtyIsSent ==
    [][ /\ (LoopCopy /\ pc' = "L_chk2") => ~new_setpoints'
        /\ LoopEnc => ~new_motor_enables'
        /\ pc' = "R_start" =>
              /\ tick'.sent <=> (tick'.sp \/ tick'.en2)
              /\ tick'.en => tick'.en2 ]_vars

\* C3 witness: a tick that starts with only new_motor_enables true has sent its frame
C3_Witness ==
    /\ pc = "R_start"
    /\ tick.en
    /\ ~tick.sp
    /\ tick.sent
    /\ ~new_motor_enables

\* C4: after a tick in which a frame is received, motors_active[i] is bit i of the
\* mask byte at offset 12N of that frame, and positions, velocities and efforts are
\* the values decoded from the same frame
C4_ActiveFollowsMask ==
    (pc = "L_sleep" /\ tick.applied) =>
        /\ \A k \in 1..NUMBER_OF_JOINTS :
              motors_active[k] = Bit(_rcv_buf[vector_length * 3 + 1], k - 1)
        /\ FirstN(joint_positions) = DecodeAt(_rcv_buf, 0)
        /\ FirstN(joint_velocities) = DecodeAt(_rcv_buf, vector_length)
        /\ FirstN(joint_efforts) = DecodeAt(_rcv_buf, vector_length * 2)

\* the tick has received a datagram shorter than 12N+1 bytes
ShortTick == tick.len > 0 /\ tick.len < 3 * vector_length + 1

\* C5: a tick that receives a datagram shorter than 12N+1 bytes leaves positions,
\* velocities, efforts and active flags unchanged and does not reset the miss counter
C5_ShortFrameDiscarded ==
    [][ /\ (ShortTick /\ HandleDecode) =>
              UNCHANGED << joint_positions, joint_velocities, joint_efforts,
                           motors_active >>
        /\ (ShortTick /\ LoopErr) => _no_packet_received' # 0 ]_vars

\* C6: at the end of a tick the miss counter is 0 if the tick decoded and applied a
\* frame (a frame reported with message_size included) and one more than at the start
\* of the tick otherwise
C6_CounterCountsMisses ==
    pc = "L_sleep" =>
        _no_packet_received = IF tick.applied THEN 0 ELSE tick.cnt + 1

\* C7 as stated: the warning has been printed by the tick in which the counter reaches
\* 10, the connection timeout by the tick in which it reaches 20
C7_SignalsByThreshold ==
    pc = "L_sleep" =>
        /\ _no_packet_received >= WARN_AFTER => "warning" \in emitted
        /\ _no_packet_received >= TIMEOUT_AFTER => "timeout" \in emitted

\* C7 amended: in a run of misses the warning has been printed exactly when the
\* counter has exceeded 10 (first in the tick in which it reaches 11), the connection
\* timeout exactly when it has exceeded 20 (first in the tick in which it reaches 21)
C7_SignalsAfterThreshold ==
    /\ "warning" \in emitted <=> _no_packet_received > WARN_AFTER
    /\ "timeout" \in emitted <=> _no_packet_received > TIMEOUT_AFTER

\* C7 witness: 25 consecutive misses, both messages printed, still connected
C7_Witness ==
    /\ pc = "L_sleep"
    /\ tick.cnt = 24
    /\ _no_packet_received = 25
    /\ emitted = { "warning", "timeout" }
    /\ _connected

\* C8: _connected is never set back to false and is true only if the socket's connect
\* succeeded; the error handling of a tick always leads to the sleep, and the sleep,
\* unless the thread is interrupted, to the next tick
C8_MissesObservational ==
    [][ /\ _connected => _connected'
        /\ _connected' => sock_connected'
        /\ LoopErr => pc' = "L_sleep"
        /\ (LoopSleep /\ ~interrupt_requested) => pc' = "L_top" ]_vars

\* C8 witness: connected, more than 20 consecutive misses, and the next tick begins
C8_Witness ==
    /\ _connected
    /\ pc = "L_top"
    /\ _no_packet_received > TIMEOUT_AFTER
    /\ "timeout" \in emitted

\* C9: once the destructor has started, it finishes: the loop thread terminates and
\* join() returns (or the process was aborted meanwhile)
C9_TeardownCompletes ==
    (pcm \in DtorStates) ~> (pcm = "d_done" \/ crashed)

\* C10: a failed send does not end the loop thread: the tick goes on to its receive
C10_SendFailureContained ==
    [][ LoopSend => (pc' = "R_start" /\ ~crashed') ]_vars


\* C11: the byte _bool_to_char produces for an enable array of N <= 8 elements has
\* bit i (bit 0 least significant) equal to element i for every i in [0,N), and all
\* higher bits 0 (so five enabled joints give 0b00011111)
C11_MaskBitsAreEnables ==
    (pc = "K_packed" /\ Len(motors_enabled) <= 8) =>
        LET c == send_buf[NUMBER_OF_JOINTS * FLOAT_LENGTH + 1]
            n == Len(motors_enabled)
        IN  /\ \A k \in 1..n : Bit(c, k - 1) = motors_enabled[k]
            /\ c < 2 ^ n

\* the four bytes of the float pattern p, most significant first
BigEndian(p) ==
    << p \div 16777216, (p \div 65536) % 256, (p \div 256) % 256, p % 256 >>

\* C12: the four bytes written at offset 4*i of the outgoing frame are the bytes of
\* the float32 setpoint, most significant first, and _binary_to_double applied to
\* them gives back that float32 pattern (as a double)
C12_FloatBytesRoundTrip ==
    /\ pc \in { "K_encoded", "K_decoded" } =>
          LET p == ToFloat(joint_setpoints[i + 1])
          IN  /\ BufFloat(send_buf, i + 1) = BigEndian(p)
              /\ _binary_to_double(send_buf, i * FLOAT_LENGTH) = ToDouble(p)
    /\ pc = "K_decoded" =>
          joint_positions[i + 1] = ToDouble(ToFloat(joint_setpoints[i + 1]))

\* a pattern of four different bytes, inexact as a double, went through the encoder
\* and the decoder at the last joint's offset
C12_Witness ==
    /\ pc = "K_decoded"
    /\ i = NUMBER_OF_JOINTS - 1
    /\ joint_setpoints[i + 1] = << MemFloat(<< 1, 128, 255, 63 >>), 1 >>
    /\ BufFloat(send_buf, i + 1) = << 63, 255, 128, 1 >>
    /\ joint_positions[i + 1] = << MemFloat(<< 1, 128, 255, 63 >>), 0 >>

\* C13: unpacking the byte produced by packing flags gives back flags: after
\* _char_to_bool on _bool_to_char(flags), the array the caller passed holds flags
C13_UnpackInvertsPack ==
    (pc = "K_unpacked" /\ Len(motors_enabled) <= 8) => motors_active = motors_enabled

\* the loop has copied the setpoints of this tick's frame and has still to copy the
\* enable flags of the same frame
BetweenCopies ==
    /\ tick.sp
    /\ new_contents
    /\ pc \in { "L_chk2", "L_lock2" }

\* C14: a frame is built within a single hold of state_mutex: no external write takes
\* effect between the copy of the setpoints and the copy of the enable flags of the
\* same frame
\* and when the enable flags are copied the setpoints already in the frame are still
\* those of the shared state
C14_FrameFromOneState ==
    [][ /\ ((\E v \in SetVals : WriteSetpoints(v)) \/ (\E e \in EnableVals : WriteEnables(e)))
            => ~(BetweenCopies /\ (pc = "L_lock2" \/ new_motor_enables'))
        /\ (LoopEnc /\ tick.sp)
            => \A k \in 1..NUMBER_OF_JOINTS :
                  BufFloat(send_buf', k) = EncFloat(joint_setpoints[k]) ]_vars

\* C15: a frame handed to the socket carries the encoding of the current setpoints
\* and, in its last byte, the encoding of the current enable flags (as _bool_to_char
\* encodes them), whichever dirty flag triggered the send; "current" is the shared
\* state as long as no writer has marked it dirty again
C15_FrameCarriesBothFields ==
    (pc = "R_start" /\ tick.sent) =>
        /\ ~new_setpoints =>
              \A k \in 1..NUMBER_OF_JOINTS :
                  BufFloat(send_buf, k) = EncFloat(joint_setpoints[k])
        /\ ~new_motor_enables =>
              \E oob \in BOOLEAN :
                  send_buf[NUMBER_OF_JOINTS * FLOAT_LENGTH + 1]
                      = _bool_to_char(motors_enabled, oob)

\* the loop thread reads (tests) a dirty flag in this step
LoopTestsFlag ==
    \/ pc = "L_top" /\ pc' \in { "L_lock1", "L_chk2" }
    \/ pc = "L_chk2" /\ pc' \in { "L_lock2", "L_send" }

\* the loop thread clears a dirty flag in this step
LoopClearsFlag ==
    \/ LoopCopy /\ new_setpoints /\ ~new_setpoints'
    \/ LoopEnc /\ new_motor_enables /\ ~new_motor_enables'

\* C16: the loop thread reads, tests and clears new_setpoints and new_motor_enables
\* only while it holds state_mutex
C16_FlagsUnderLock ==
    [][ (LoopTestsFlag \/ LoopClearsFlag) => state_mutex = "loop" ]_vars

\* the number of completed receives whose handler has still to run
RECURSIVE ReceiveHandlers(_)
ReceiveHandlers(q) ==
    IF q = << >> THEN 0
    ELSE (IF Head(q).h = "handle_receive" THEN 1 ELSE 0) + ReceiveHandlers(Tail(q))

\* C17: at most one asynchronous receive is outstanding, and whenever the loop thread
\* is outside _receive no receive is pending and no receive handler has still to run
C17_OneReceiveOutstanding ==
    /\ recv_pending + ReceiveHandlers(ready) <= 1
    /\ pc \in OutsideReceive => recv_pending + ReceiveHandlers(ready) = 0
    /\ pc = "L_err" => _ec # "would_block"

\* a call that timed out has returned: its receive was cancelled and the handler ran
C17_Witness ==
    /\ pc = "L_err"
    /\ _ec = "operation_aborted"
    /\ recv_pending = 0
    /\ ReceiveHandlers(ready) = 0
    /\ tick.cnt = 1

\* C18: the receive of a call is cancelled only when the deadline set by that call
\* has passed; a deadline handler that runs while the expiry set by the current call
\* is still ahead leaves the receive pending and waits on the timer again
C18_CancelOnlyOwnDeadline ==
    [][ /\ (LoopRunOne /\ recv_pending' < recv_pending) => deadline = "passed"
        /\ (LoopRunOne /\ Head(ready).h = "check_deadline" /\ deadline = "pending")
            => /\ recv_pending' = recv_pending
               /\ ReceiveHandlers(ready') = ReceiveHandlers(ready)
               /\ deadline' = "pending"
               /\ wait_armed' ]_vars

\* after a call that returned with data, the deadline handler left over from that
\* call's wait has run in the next call, and the next call's receive is still pending
C18_Witness ==
    /\ pc = "R_chk"
    /\ _ec = "would_block"
    /\ recv_pending = 1
    /\ deadline = "pending"
    /\ wait_armed
    /\ ready = << >>
    /\ tick.cnt = 0
    /\ _initialized
    /\ FirstN(joint_positions) = DecodeAt(FrameA, 0)

\* C19: once connect() has sized them, joint_setpoints, motors_enabled, motors_active,
\* joint_positions, joint_velocities and joint_efforts have exactly NUMBER_OF_JOINTS
\* elements each, and keep that length
C19_ArraysHaveNElements ==
    _initialized =>
        /\ Len(joint_setpoints) = NUMBER_OF_JOINTS
        /\ Len(motors_enabled) = NUMBER_OF_JOINTS
        /\ Len(motors_active) = NUMBER_OF_JOINTS
        /\ Len(joint_positions) = NUMBER_OF_JOINTS
        /\ Len(joint_velocities) = NUMBER_OF_JOINTS
        /\ Len(joint_efforts) = NUMBER_OF_JOINTS

\* C20: every element access to a vector is within the vector's bounds, whatever the
\* interleaving of connect() with the loop thread: names_list[i] in connect(),
\* joint_setpoints[i] in _loop, joint_positions[i], joint_velocities[i] and
\* joint_efforts[i] in _handle_receive, b_vect[b_vect.size()-i] in _bool_to_char
C20_AccessesInBounds ==
    [][ /\ ConnectInit => \A j \in ConnectNameReads : InBounds(j, names_list)
        /\ LoopCopy => InBounds(i, joint_setpoints)
        /\ HandleDecode => /\ InBounds(h_i, joint_positions)
                           /\ InBounds(h_i, joint_velocities)
                           /\ InBounds(h_i, joint_efforts)
        /\ LoopEnc => \A j \in BoolToCharReads(motors_enabled) :
                          InBounds(j, motors_enabled) ]_vars
====
